---- MODULE Spec2Model ----
(***************************************************************************)
(* Action dispatch of the futarchy dissolution actions, as the migration   *)
(* scripts of the repository write it.                                     *)
(*                                                                         *)
(* Two layers are modelled.                                                *)
(*  - The Move source of the do_ functions of dissolution_actions.move, as *)
(*    a table from function name to body, a body being the sequence of its *)
(*    statements.  The scripts (fix_financial_actions, complete_migration, *)
(*    fix_all_actions, fix_all_issues) are actions that rewrite the table. *)
(*  - The execution of a deployed table: a transaction creates an          *)
(*    Executable over an Intent and calls do_ functions one after another; *)
(*    a call interprets the body of the function statement by statement.   *)
(*                                                                         *)
(* An abort (a failed assert!, a failed bcs peel, an out-of-bounds borrow) *)
(* ends the transaction and discards every write it made to the Account.   *)
(* The variable cursor keeps the value action_idx had at the abort.        *)
(*                                                                         *)
(* The scripts that work on the text of a file rather than on the body of  *)
(* one function have specifications of their own over the variable files:  *)
(* SecuritySpec (fix_action_security.process_file on a file of several     *)
(* do_ functions), DecoderSpec (fix_stream_decoder followed by             *)
(* fix_p1_decoder_registrations) and MarkerSpec (the action type markers   *)
(* of fix_all_issues, run more than once).                                 *)
(***************************************************************************)
EXTENDS Integers, Sequences, FiniteSets, TLC

\* Longest Intent a transaction is started with.
MaxLen == 2

\* Width in bytes of a BCS u64 and of a BCS address.
U64Bytes == 8
AddrBytes == 32

\* The only schema version the rewritten functions accept.
SupportedVersion == 1

----------------------------------------------------------------------------
\* Sequence helpers.

Range(s) == {s[i] : i \in 1..Len(s)}

Drop(s, n) == SubSeq(s, n + 1, Len(s))

Take(s, n) == SubSeq(s, 1, n)

RECURSIVE Flatten(_)
Flatten(ss) == IF ss = <<>> THEN <<>> ELSE Head(ss) \o Flatten(Tail(ss))

----------------------------------------------------------------------------
\* BCS encoding (bcs::to_bytes of the action structs).

RECURSIVE EncUleb(_)
EncUleb(n) == IF n < 128 THEN <<n>> ELSE <<128 + (n % 128)>> \o EncUleb(n \div 128)

EncU8(n) == <<n % 256>>

EncBool(b) == <<IF b THEN 1 ELSE 0>>

\* Little-endian bytes of n on k bytes.
RECURSIVE EncLe(_, _)
EncLe(n, k) == IF k = 0 THEN <<>> ELSE <<n % 256>> \o EncLe(n \div 256, k - 1)

EncU64(n) == EncLe(n, U64Bytes)

EncVecU8(bs) == EncUleb(Len(bs)) \o bs

EncVecVecU8(vs) == EncUleb(Len(vs)) \o Flatten([i \in 1..Len(vs) |-> EncVecU8(vs[i])])

\* An address is its 32 bytes; Addr(n) is the address 0x...n.
Addr(n) == [i \in 1..AddrBytes |-> IF i = AddrBytes THEN n ELSE 0]

NullAddress == Addr(0)

----------------------------------------------------------------------------
\* BCS reader (sui::bcs peel_*).  A peel returns whether it succeeded, the
\* value read and the bytes left in the reader.

PeelFail == [ok |-> FALSE, val |-> 0, rest |-> <<>>]

PeelU8(rd) ==
    IF Len(rd) < 1 THEN PeelFail
    ELSE [ok |-> TRUE, val |-> rd[1], rest |-> Drop(rd, 1)]

PeelBool(rd) ==
    IF Len(rd) < 1 \/ rd[1] \notin {0, 1} THEN PeelFail
    ELSE [ok |-> TRUE, val |-> (rd[1] = 1), rest |-> Drop(rd, 1)]

RECURSIVE LeValue(_)
LeValue(bs) == IF bs = <<>> THEN 0 ELSE Head(bs) + 256 * LeValue(Tail(bs))

\* peel_u64 reading four bytes, as a u32 is read.
PeelU64AsU32(rd) ==
    IF Len(rd) < 4 THEN PeelFail
    ELSE [ok |-> TRUE, val |-> LeValue(Take(rd, 4)), rest |-> Drop(rd, 4)]

PeelU64(rd) ==
    IF Len(rd) < U64Bytes THEN PeelFail
    ELSE [ok |-> TRUE, val |-> LeValue(Take(rd, U64Bytes)), rest |-> Drop(rd, U64Bytes)]

PeelAddress(rd) ==
    IF Len(rd) < AddrBytes THEN PeelFail
    ELSE [ok |-> TRUE, val |-> Take(rd, AddrBytes), rest |-> Drop(rd, AddrBytes)]

RECURSIVE PeelUleb(_)
PeelUleb(rd) ==
    IF Len(rd) < 1 THEN PeelFail
    ELSE IF rd[1] < 128 THEN [ok |-> TRUE, val |-> rd[1], rest |-> Drop(rd, 1)]
    ELSE LET r == PeelUleb(Drop(rd, 1))
         IN  IF r.ok THEN [ok |-> TRUE, val |-> (rd[1] - 128) + 128 * r.val, rest |-> r.rest]
             ELSE PeelFail

\* peel_vec_u8 reading the length as one byte instead of as a ULEB128.
PeelVecU8OneByteLength(rd) ==
    LET l == PeelU8(rd)
    IN  IF ~l.ok \/ Len(l.rest) < l.val THEN PeelFail
        ELSE [ok |-> TRUE, val |-> Take(l.rest, l.val), rest |-> Drop(l.rest, l.val)]

PeelVecU8(rd) ==
    LET l == PeelUleb(rd)
    IN  IF ~l.ok \/ Len(l.rest) < l.val THEN PeelFail
        ELSE [ok |-> TRUE, val |-> Take(l.rest, l.val), rest |-> Drop(l.rest, l.val)]

RECURSIVE PeelVecs(_, _)
PeelVecs(rd, n) ==
    IF n = 0 THEN [ok |-> TRUE, val |-> <<>>, rest |-> rd]
    ELSE LET h == PeelVecU8(rd)
         IN  IF ~h.ok THEN [ok |-> FALSE, val |-> <<>>, rest |-> <<>>]
             ELSE LET t == PeelVecs(h.rest, n - 1)
                  IN  IF ~t.ok THEN [ok |-> FALSE, val |-> <<>>, rest |-> <<>>]
                      ELSE [ok |-> TRUE, val |-> <<h.val>> \o t.val, rest |-> t.rest]

PeelVecVecU8(rd) ==
    LET l == PeelUleb(rd)
    IN  IF ~l.ok THEN [ok |-> FALSE, val |-> <<>>, rest |-> <<>>]
        ELSE PeelVecs(l.rest, l.val)

\* string::utf8 aborts on bytes that are not UTF-8.  The payloads of the
\* model use bytes below 128 and the byte 255 only, for which a string is
\* valid exactly when it holds no 255.
Utf8Valid(bs) == \A i \in 1..Len(bs) : bs[i] < 128

----------------------------------------------------------------------------
\* Move source of the do_ functions: a body is the sequence of its statements.

St(op, arg, err) == [op |-> op, arg |-> arg, err |-> err]

\* The do_ functions a script holds a rewritten text for.
Templated ==
    {"do_initiate_dissolution", "do_batch_distribute",
     "do_finalize_dissolution", "do_cancel_dissolution"}

\* dissolution_actions.move holds eight do_ functions; do_other stands for
\* the ones no script holds a text for.
Functions == Templated \cup {"do_other"}

\* The action struct a function read with executable.next_action before the
\* migration.
ActionStructOf(f) ==
    CASE f = "do_initiate_dissolution" -> "InitiateDissolutionAction"
      [] f = "do_batch_distribute"     -> "BatchDistributeAction"
      [] f = "do_finalize_dissolution" -> "FinalizeDissolutionAction"
      [] f = "do_cancel_dissolution"   -> "CancelDissolutionAction"
      [] OTHER                         -> "OtherDissolutionAction"

\* The functions as the regular expressions of the scripts expect to find
\* them: the next_action line, the original statements, a closing
\* "let _ = version;" ("let _ = ctx;" in do_batch_distribute).
LegacyBody(f) ==
    << St("next_action", ActionStructOf(f), ""),
       St("legacy_body", f, ""),
       St(IF f = "do_batch_distribute" THEN "let_ctx" ELSE "let_version", "", "") >>

\* do_initiate_dissolution that leaves the proposals flag as it finds it.
InitiateTemplateProposalsOpen ==
    << St("borrow_spec", "", "EIndexOutOfBounds"),
       St("assert_action_type", "InitiateDissolution", "WrongActionType"),
       St("action_spec_data", "", ""),
       St("bcs_new", "", ""),
       St("peel_vec_u8", "reason", "EOutOfRange"),
       St("peel_u8", "distribution_method", "EOutOfRange"),
       St("peel_bool", "burn_unsold_tokens", "ENotBool"),
       St("peel_u64", "final_operations_deadline", "EOutOfRange"),
       St("validate_all_bytes_consumed", "", "MalformedPayload"),
       St("config_mut", "", ""),
       St("set_operational_state", "dissolving", ""),
       St("assert", "reason_nonempty", "EInvalidRatio"),
       St("assert", "method_le_2", "EInvalidRatio"),
       St("assert", "deadline_positive", "EInvalidThreshold"),
       St("increment_action_idx", "", "ExecutableExhausted") >>

\* do_initiate_dissolution without the assertion on the reason.
InitiateTemplateNoReasonCheck ==
    << St("borrow_spec", "", "EIndexOutOfBounds"),
       St("assert_action_type", "InitiateDissolution", "WrongActionType"),
       St("action_spec_data", "", ""),
       St("bcs_new", "", ""),
       St("peel_vec_u8", "reason", "EOutOfRange"),
       St("peel_u8", "distribution_method", "EOutOfRange"),
       St("peel_bool", "burn_unsold_tokens", "ENotBool"),
       St("peel_u64", "final_operations_deadline", "EOutOfRange"),
       St("validate_all_bytes_consumed", "", "MalformedPayload"),
       St("config_mut", "", ""),
       St("set_operational_state", "dissolving", ""),
       St("set_proposals_enabled", "false", ""),
       St("assert", "method_le_2", "EInvalidRatio"),
       St("assert", "deadline_positive", "EInvalidThreshold"),
       St("increment_action_idx", "", "ExecutableExhausted") >>

\* do_initiate_dissolution with the increment written before the business
\* assertions instead of at the end.
InitiateTemplateAdvanceFirst ==
    << St("borrow_spec", "", "EIndexOutOfBounds"),
       St("assert_action_type", "InitiateDissolution", "WrongActionType"),
       St("action_spec_data", "", ""),
       St("bcs_new", "", ""),
       St("peel_vec_u8", "reason", "EOutOfRange"),
       St("peel_u8", "distribution_method", "EOutOfRange"),
       St("peel_bool", "burn_unsold_tokens", "ENotBool"),
       St("peel_u64", "final_operations_deadline", "EOutOfRange"),
       St("validate_all_bytes_consumed", "", "MalformedPayload"),
       St("config_mut", "", ""),
       St("set_operational_state", "dissolving", ""),
       St("set_proposals_enabled", "false", ""),
       St("increment_action_idx", "", "ExecutableExhausted"),
       St("assert", "reason_nonempty", "EInvalidRatio"),
       St("assert", "method_le_2", "EInvalidRatio"),
       St("assert", "deadline_positive", "EInvalidThreshold") >>

\* do_initiate_dissolution with the type assertion written after the
\* deserialization instead of before it.
InitiateTemplateDecodeFirst ==
    << St("borrow_spec", "", "EIndexOutOfBounds"),
       St("action_spec_data", "", ""),
       St("bcs_new", "", ""),
       St("peel_vec_u8", "reason", "EOutOfRange"),
       St("peel_u8", "distribution_method", "EOutOfRange"),
       St("peel_bool", "burn_unsold_tokens", "ENotBool"),
       St("peel_u64", "final_operations_deadline", "EOutOfRange"),
       St("validate_all_bytes_consumed", "", "MalformedPayload"),
       St("assert_action_type", "InitiateDissolution", "WrongActionType"),
       St("config_mut", "", ""),
       St("set_operational_state", "dissolving", ""),
       St("set_proposals_enabled", "false", ""),
       St("assert", "reason_nonempty", "EInvalidRatio"),
       St("assert", "method_le_2", "EInvalidRatio"),
       St("assert", "deadline_positive", "EInvalidThreshold"),
       St("increment_action_idx", "", "ExecutableExhausted") >>

InitiateTemplate ==
    << St("borrow_spec", "", "EIndexOutOfBounds"),
       St("assert_action_type", "InitiateDissolution", "WrongActionType"),
       St("action_spec_data", "", ""),
       St("bcs_new", "", ""),
       St("peel_vec_u8", "reason", "EOutOfRange"),
       St("peel_u8", "distribution_method", "EOutOfRange"),
       St("peel_bool", "burn_unsold_tokens", "ENotBool"),
       St("peel_u64", "final_operations_deadline", "EOutOfRange"),
       St("validate_all_bytes_consumed", "", "MalformedPayload"),
       St("config_mut", "", ""),
       St("set_operational_state", "dissolving", ""),
       St("set_proposals_enabled", "false", ""),
       St("assert", "reason_nonempty", "EInvalidRatio"),
       St("assert", "method_le_2", "EInvalidRatio"),
       St("assert", "deadline_positive", "EInvalidThreshold"),
       St("increment_action_idx", "", "ExecutableExhausted") >>

\* do_batch_distribute taking the config mutably and closing the dissolution.
BatchTemplateFinalizing ==
    << St("borrow_spec", "", "EIndexOutOfBounds"),
       St("assert_action_type", "DistributeAsset", "WrongActionType"),
       St("action_spec_data", "", ""),
       St("bcs_new", "", ""),
       St("peel_vec_vec_u8", "asset_types", "EOutOfRange"),
       St("validate_all_bytes_consumed", "", "MalformedPayload"),
       St("config_mut", "", ""),
       St("assert", "state_dissolving", "EDissolutionNotActive"),
       St("assert", "assets_nonempty", "EEmptyAssetList"),
       St("set_operational_state", "dissolved", ""),
       St("let_version", "", ""),
       St("let_ctx", "", ""),
       St("increment_action_idx", "", "ExecutableExhausted") >>

BatchTemplate ==
    << St("borrow_spec", "", "EIndexOutOfBounds"),
       St("assert_action_type", "DistributeAsset", "WrongActionType"),
       St("action_spec_data", "", ""),
       St("bcs_new", "", ""),
       St("peel_vec_vec_u8", "asset_types", "EOutOfRange"),
       St("validate_all_bytes_consumed", "", "MalformedPayload"),
       St("config", "", ""),
       St("assert", "state_dissolving", "EDissolutionNotActive"),
       St("assert", "assets_nonempty", "EEmptyAssetList"),
       St("let_version", "", ""),
       St("let_ctx", "", ""),
       St("increment_action_idx", "", "ExecutableExhausted") >>

FinalizeTemplate ==
    << St("borrow_spec", "", "EIndexOutOfBounds"),
       St("assert_action_type", "FinalizeDissolution", "WrongActionType"),
       St("action_spec_data", "", ""),
       St("bcs_new", "", ""),
       St("peel_address", "final_recipient", "EOutOfRange"),
       St("peel_bool", "destroy_account", "ENotBool"),
       St("validate_all_bytes_consumed", "", "MalformedPayload"),
       St("config_mut", "", ""),
       St("assert", "state_dissolving", "EDissolutionNotActive"),
       St("assert", "recipient_nonnull", "EInvalidRecipient"),
       St("set_operational_state", "dissolved", ""),
       St("if", "destroy_account", ""),
       St("end_if", "", ""),
       St("increment_action_idx", "", "ExecutableExhausted") >>

\* do_cancel_dissolution without the assertion on the operational state.
CancelTemplateNoStateCheck ==
    << St("borrow_spec", "", "EIndexOutOfBounds"),
       St("assert_action_type", "CancelDissolution", "WrongActionType"),
       St("action_spec_data", "", ""),
       St("bcs_new", "", ""),
       St("peel_vec_u8", "reason", "EOutOfRange"),
       St("utf8", "reason", "EInvalidUTF8"),
       St("validate_all_bytes_consumed", "", "MalformedPayload"),
       St("config_mut", "", ""),
       St("assert", "reason_nonempty", "EInvalidRatio"),
       St("set_operational_state", "active", ""),
       St("set_proposals_enabled", "true", ""),
       St("increment_action_idx", "", "ExecutableExhausted") >>

CancelTemplate ==
    << St("borrow_spec", "", "EIndexOutOfBounds"),
       St("assert_action_type", "CancelDissolution", "WrongActionType"),
       St("action_spec_data", "", ""),
       St("bcs_new", "", ""),
       St("peel_vec_u8", "reason", "EOutOfRange"),
       St("utf8", "reason", "EInvalidUTF8"),
       St("validate_all_bytes_consumed", "", "MalformedPayload"),
       St("config_mut", "", ""),
       St("assert", "state_dissolving", "ENotDissolving"),
       St("assert", "reason_nonempty", "EInvalidRatio"),
       St("set_operational_state", "active", ""),
       St("set_proposals_enabled", "true", ""),
       St("increment_action_idx", "", "ExecutableExhausted") >>

\* The statements fix_next_action_call puts in place of a next_action line.
SecureReplacement(actionType) ==
    << St("is_current_action", actionType, "EWrongAction"),
       St("borrow_spec", "", "EIndexOutOfBounds"),
       St("action_spec_data", "", ""),
       St("action_spec_version", "", ""),
       St("assert_version", "", "EUnsupportedActionVersion"),
       St("from_bytes", actionType, "EDeserialize") >>

IncrementStmt == St("increment_action_idx", "", "ExecutableExhausted")

----------------------------------------------------------------------------
\* Execution of one call of a do_ function.

\* The local variables a body binds when it decodes its payload.
NoLocals ==
    [reason |-> <<>>, distribution_method |-> 0, burn_unsold_tokens |-> FALSE,
     final_operations_deadline |-> 0, final_recipient |-> NullAddress,
     destroy_account |-> FALSE, asset_types |-> <<>>]

\* The fields of the action structs, in declaration order, as the peel that
\* reads each and the local it is bound to.
StructFields(actionType) ==
    CASE actionType = "InitiateDissolutionAction" ->
            << <<"peel_vec_u8", "reason">>, <<"peel_u8", "distribution_method">>,
               <<"peel_bool", "burn_unsold_tokens">>,
               <<"peel_u64", "final_operations_deadline">> >>
      [] actionType = "BatchDistributeAction" ->
            << <<"peel_vec_vec_u8", "asset_types">> >>
      [] actionType = "FinalizeDissolutionAction" ->
            << <<"peel_address", "final_recipient">>, <<"peel_bool", "destroy_account">> >>
      [] actionType = "CancelDissolutionAction" ->
            << <<"peel_vec_u8", "reason">> >>

Peel(op, rd) ==
    CASE op = "peel_u8"         -> PeelU8(rd)
      [] op = "peel_bool"       -> PeelBool(rd)
      [] op = "peel_u64"        -> PeelU64(rd)
      [] op = "peel_address"    -> PeelAddress(rd)
      [] op = "peel_vec_u8"     -> PeelVecU8(rd)
      [] op = "peel_vec_vec_u8" -> PeelVecVecU8(rd)

\* Decoding of a whole struct: its fields one after another.
RECURSIVE DecodeFields(_, _, _)
DecodeFields(fields, rd, locals) ==
    IF fields = <<>> THEN [ok |-> TRUE, locals |-> locals, rest |-> rd]
    ELSE LET r == Peel(Head(fields)[1], rd)
         IN  IF ~r.ok THEN [ok |-> FALSE, locals |-> locals, rest |-> <<>>]
             ELSE DecodeFields(Tail(fields), r.rest,
                               [locals EXCEPT ![Head(fields)[2]] = r.val])

\* The step of the dispatch a statement belongs to ("" for a statement that
\* is no step of its own).
StepOf(op) ==
    CASE op = "borrow_spec" -> "current"
      [] op \in {"assert_action_type", "is_current_action"} -> "tag"
      [] op = "assert_version" -> "version"
      [] op \in {"bcs_new", "peel_u8", "peel_bool", "peel_u64", "peel_address",
                 "peel_vec_u8", "peel_vec_vec_u8", "utf8",
                 "validate_all_bytes_consumed", "from_bytes"} -> "decode"
      [] op = "assert" -> "validate"
      [] op \in {"set_operational_state", "set_proposals_enabled"} -> "mutate"
      [] op = "legacy_body" -> "legacy"
      [] op = "increment_action_idx" -> "advance"
      [] OTHER -> ""

Condition(name, fr) ==
    CASE name = "reason_nonempty"   -> Len(fr.locals.reason) > 0
      [] name = "method_le_2"       -> fr.locals.distribution_method <= 2
      [] name = "deadline_positive" -> fr.locals.final_operations_deadline > 0
      [] name = "state_dissolving"  -> fr.config.operational_state = "dissolving"
      [] name = "recipient_nonnull" -> fr.locals.final_recipient /= NullAddress
      [] name = "assets_nonempty"   -> Len(fr.locals.asset_types) > 0
      [] name = "destroy_account"   -> fr.locals.destroy_account

Abort(fr, st) ==
    [fr EXCEPT !.status = "abort", !.err = st.err, !.failStep = StepOf(st.op)]

\* A failed check that reports its code and returns from the function
\* instead of aborting the transaction.
AssertStepReturns(cond, fr, st) ==
    IF cond THEN fr
    ELSE [fr EXCEPT !.status = "return", !.err = st.err, !.failStep = StepOf(st.op)]

\* assert!(cond, code)
AssertStep(cond, fr, st) == IF cond THEN fr ELSE Abort(fr, st)

\* executable::is_current_action<Outcome, T>(executable)
IsCurrentAction(intent, idx, actionType) ==
    idx < Len(intent) /\ intent[idx + 1].tag = actionType

\* action_validation::assert_action_type<T>(spec)
AssertActionType(spec, marker, fr, st) == AssertStep(spec.tag = marker, fr, st)

\* bcs_validation::validate_all_bytes_consumed(reader)
ValidateAllBytesConsumed(fr, st) == AssertStep(fr.rd = <<>>, fr, st)

\* An increment that does not look at the length of the Intent.
IncrementActionIdxUnchecked(intent, fr, st) == [fr EXCEPT !.cursor = @ + 1]

\* executable::increment_action_idx(executable)
IncrementActionIdx(intent, fr, st) ==
    IF fr.cursor >= Len(intent) THEN Abort(fr, st)
    ELSE [fr EXCEPT !.cursor = @ + 1]

\* bcs::from_bytes<T>(*action_data).  The call decodes the fields of T from
\* the front of the bytes; whether it rejects bytes left over is not fixed
\* by the sources (no function of this name is part of sui::bcs), so both
\* outcomes are allowed: strict tells which one this call takes.
FromBytes(actionType, fr, st, strict) ==
    LET r == DecodeFields(StructFields(actionType), fr.data, NoLocals)
    IN  IF ~r.ok \/ (strict /\ r.rest /= <<>>) THEN Abort(fr, st)
        ELSE [fr EXCEPT !.locals = r.locals, !.rd = r.rest]

\* The effect of one statement on the frame of the call.
Exec(st, fr, intent, strict) ==
    LET op == st.op
        spec == intent[fr.cursor + 1]
    IN  CASE op = "borrow_spec" ->
                AssertStep(fr.cursor < Len(intent), fr, st)
          [] op = "assert_action_type" -> AssertActionType(spec, st.arg, fr, st)
          [] op = "is_current_action" ->
                AssertStep(IsCurrentAction(intent, fr.cursor, st.arg), fr, st)
          [] op = "action_spec_data" -> [fr EXCEPT !.data = spec.payload]
          [] op = "action_spec_version" -> [fr EXCEPT !.version = spec.version]
          [] op = "assert_version" ->
                AssertStep(fr.version = SupportedVersion, fr, st)
          [] op = "bcs_new" -> [fr EXCEPT !.rd = fr.data]
          [] op \in {"peel_u8", "peel_bool", "peel_u64", "peel_address",
                     "peel_vec_u8", "peel_vec_vec_u8"} ->
                LET r == Peel(op, fr.rd)
                IN  IF ~r.ok THEN Abort(fr, st)
                    ELSE [fr EXCEPT !.rd = r.rest, !.locals[st.arg] = r.val]
          [] op = "utf8" -> AssertStep(Utf8Valid(fr.locals[st.arg]), fr, st)
          [] op = "validate_all_bytes_consumed" -> ValidateAllBytesConsumed(fr, st)
          [] op = "from_bytes" -> FromBytes(st.arg, fr, st, strict)
          [] op = "assert" -> AssertStep(Condition(st.arg, fr), fr, st)
          [] op = "set_operational_state" ->
                [fr EXCEPT !.config.operational_state = st.arg]
          [] op = "set_proposals_enabled" ->
                [fr EXCEPT !.config.proposals_enabled = (st.arg = "true")]
          [] op = "legacy_body" -> [fr EXCEPT !.config.legacy_applied = TRUE]
          [] op = "if" -> [fr EXCEPT !.skip = ~Condition(st.arg, fr)]
          [] op = "increment_action_idx" -> IncrementActionIdx(intent, fr, st)
          [] OTHER -> fr

\* One statement: skipped inside an if-block that is not taken, otherwise
\* executed and, when it is a step of the dispatch, recorded in the trace.
Statement(st, fr, intent, strict) ==
    IF st.op = "end_if" THEN [fr EXCEPT !.skip = FALSE]
    ELSE IF fr.skip THEN fr
    ELSE LET traced == IF StepOf(st.op) = "" THEN fr
                       ELSE [fr EXCEPT !.trace = Append(@, StepOf(st.op))]
         IN  Exec(st, traced, intent, strict)

RECURSIVE Run(_, _, _, _)
Run(body, fr, intent, strict) ==
    IF body = <<>> \/ fr.status /= "run" THEN fr
    ELSE Run(Tail(body), Statement(Head(body), fr, intent, strict), intent, strict)

\* The frame a call starts with.
Frame(idx, cfg) ==
    [status |-> "run", err |-> "none", failStep |-> "", cursor |-> idx,
     config |-> cfg, trace |-> <<>>, data |-> <<>>, version |-> 0, rd |-> <<>>,
     skip |-> FALSE, locals |-> NoLocals]

----------------------------------------------------------------------------
\* The migration scripts, as rewritings of function bodies.

HasOp(body, op) == \E i \in 1..Len(body) : body[i].op = op

\* Position of the first closing brace inside a body (the end of its first
\* nested block), 0 when the first closing brace is the one of the function.
FirstClose(body) ==
    IF HasOp(body, "end_if")
    THEN CHOOSE i \in 1..Len(body) :
            body[i].op = "end_if" /\ \A j \in 1..(i - 1) : body[j].op /= "end_if"
    ELSE 0

\* initiate_pattern and its siblings: the next_action line, then anything,
\* then the closing statement right before the brace that ends the function.
MatchesLegacy(body, closing) ==
    /\ HasOp(body, "next_action")
    /\ body[Len(body)].op = closing

\* fix_financial_actions.fix_dissolution_actions
FixDissolutionBody(f, body) ==
    CASE f = "do_initiate_dissolution" /\ MatchesLegacy(body, "let_version") -> InitiateTemplate
      [] f = "do_batch_distribute" /\ MatchesLegacy(body, "let_ctx") -> BatchTemplate
      [] OTHER -> body

\* complete_migration.fix_remaining_dissolution_actions
FixRemainingBody(f, body) ==
    CASE f = "do_finalize_dissolution" /\ MatchesLegacy(body, "let_version") -> FinalizeTemplate
      [] f = "do_cancel_dissolution" /\ MatchesLegacy(body, "let_version") -> CancelTemplate
      [] OTHER -> body

\* fix_all_actions.fix_next_action_call
RECURSIVE FixNextActionCall(_)
FixNextActionCall(body) ==
    IF body = <<>> THEN <<>>
    ELSE (IF Head(body).op = "next_action" THEN SecureReplacement(Head(body).arg)
          ELSE <<Head(body)>>) \o FixNextActionCall(Tail(body))

\* fix_all_actions.ensure_increment_action_idx: the text matched for a
\* function ends at its first closing brace; the increment is looked for in
\* that text and, when missing, written right before that brace.
EnsureIncrementActionIdx(body) ==
    LET k == FirstClose(body)
        seen == IF k = 0 THEN body ELSE Take(body, k)
    IN  IF HasOp(seen, "increment_action_idx") THEN body
        ELSE IF k = 0 THEN Append(body, IncrementStmt)
        ELSE Take(body, k - 1) \o <<IncrementStmt>> \o Drop(body, k - 1)

\* fix_all_issues.fix_p0_increment_action_idx, first pattern: functions that
\* validate type and bytes, with no closing brace before "\n}".
AddIncrementIfMissing(body) ==
    IF /\ FirstClose(body) = 0
       /\ HasOp(body, "assert_action_type")
       /\ HasOp(body, "validate_all_bytes_consumed")
       /\ ~HasOp(body, "increment_action_idx")
    THEN Append(body, IncrementStmt)
    ELSE body

\* fix_all_issues.fix_p0_increment_action_idx, second pattern: any function
\* taking the executable, with no closing brace before "\n}"; none of the
\* dissolution functions returns a value.
CheckAndAddIncrement(body) ==
    IF FirstClose(body) = 0 /\ ~HasOp(body, "increment_action_idx")
    THEN Append(body, IncrementStmt)
    ELSE body

\* The tag the tag check of a body compares the spec with.
ExpectedTag(body) ==
    LET checks == {i \in 1..Len(body) : body[i].op \in {"assert_action_type", "is_current_action"}}
    IN  body[CHOOSE i \in checks : \A j \in checks : i <= j].arg

----------------------------------------------------------------------------
\* Intents.

ActionSpec(tag, version, payload) == [tag |-> tag, version |-> version, payload |-> payload]

WindDown == <<119, 105, 110, 100, 32, 100, 111, 119, 110>>

\* bcs::to_bytes of the action structs.
EncInitiate(reason, method, burn, deadline) ==
    EncVecU8(reason) \o EncU8(method) \o EncBool(burn) \o EncU64(deadline)

EncFinalize(recipient, destroy) == recipient \o EncBool(destroy)

EncCancel(reason) == EncVecU8(reason)

EncBatch(assets) == EncVecVecU8(assets)

InitiatePayloads ==
    {EncInitiate(r, 1, FALSE, 1000) : r \in {<<>>, WindDown}}

WithTrailing(payloads) == {p \o <<0>> : p \in payloads}

\* The action specs an Intent of the model is made of.
ActionSpecs ==
    {ActionSpec("InitiateDissolution", 1, p) : p \in InitiatePayloads}
    \cup {ActionSpec("InitiateDissolution", v, p) :
            v \in {1, 2}, p \in {EncInitiate(WindDown, 1, FALSE, 1000)}}
    \cup {ActionSpec("InitiateDissolution", 1, p) :
            p \in WithTrailing({EncInitiate(WindDown, 1, FALSE, 1000)})}
    \cup {ActionSpec("CancelDissolution", 1, p) :
            p \in {EncCancel(WindDown), EncCancel(<<>>),
                   EncInitiate(WindDown, 1, FALSE, 1000)}}
    \cup {ActionSpec("FinalizeDissolution", 1, EncFinalize(a, d)) :
            a \in {Addr(1)}, d \in BOOLEAN}
    \cup {ActionSpec("FinalizeDissolution", 1, EncFinalize(NullAddress, FALSE))}
    \cup {ActionSpec("DistributeAsset", 1, EncBatch(as)) : as \in {<<>>, <<WindDown>>}}
    \cup {ActionSpec("InitiateDissolutionAction", v, p) :
            v \in {1, 2}, p \in {EncInitiate(WindDown, 1, FALSE, 1000)}}
    \cup {ActionSpec("InitiateDissolutionAction", 1, p) :
            p \in WithTrailing({EncInitiate(WindDown, 1, FALSE, 1000)})}
    \cup {ActionSpec(t, 2, EncCancel(WindDown)) :
            t \in {"InitiateDissolution", "InitiateDissolutionAction"}}

Intents == UNION {[1..n -> ActionSpecs] : n \in 0..MaxLen}

----------------------------------------------------------------------------
\* State.

VARIABLES
    funcs,       \* dissolution_actions.move: function name -> body
    phase,       \* "migrate" while the scripts run, "deployed" once published
    intent,      \* the Intent of the current transaction
    cursor,      \* action_idx of the Executable
    config,      \* the FutarchyConfig of the Account
    txStart,     \* the config at the start of the transaction
    txStatus,    \* "idle", "running", "aborted" or "committed"
    dispatched,  \* the indices whose do_ call returned, in call order
    last,        \* the last do_ call of the transaction
    built,       \* the last call of a new_ function and what became of its bytes
    obligations, \* the ResourceRequests the transaction holds and has not fulfilled
    files        \* the Move sources the text-level scripts rewrite

vars ==
    <<funcs, phase, intent, cursor, config, txStart, txStatus, dispatched, last, built,
      obligations, files>>

NoCall == [fn |-> "none", idx |-> 0, err |-> "none", failStep |-> "", trace |-> <<>>]

ActiveConfig ==
    [operational_state |-> "active", proposals_enabled |-> TRUE, legacy_applied |-> FALSE]

\* No source file is under a text-level script.
NoFiles == [security |-> <<>>, decoder |-> <<>>, types |-> <<>>, runs |-> 0]

\* No new_ function has been called.
NoBuilt ==
    [fn |-> "none", params |-> NoLocals, stage |-> "none", err |-> "none",
     bytes |-> <<>>, call |-> NoCall, locals |-> NoLocals]

Init ==
    /\ funcs = [f \in Functions |-> LegacyBody(f)]
    /\ phase = "migrate"
    /\ intent = <<>>
    /\ cursor = 0
    /\ config = ActiveConfig
    /\ txStart = ActiveConfig
    /\ txStatus = "idle"
    /\ dispatched = <<>>
    /\ last = NoCall
    /\ built = NoBuilt
    /\ obligations = 0
    /\ files = NoFiles

txVars ==
    <<intent, cursor, config, txStart, txStatus, dispatched, last, built, obligations,
      files>>

\* python fix_financial_actions.py
FixFinancialActions ==
    /\ phase = "migrate"
    /\ funcs' = [f \in Functions |-> FixDissolutionBody(f, funcs[f])]
    /\ UNCHANGED <<phase, txVars>>

\* python complete_migration.py
CompleteMigration ==
    /\ phase = "migrate"
    /\ funcs' = [f \in Functions |-> FixRemainingBody(f, funcs[f])]
    /\ UNCHANGED <<phase, txVars>>

\* python fix_all_actions.py: process_file on dissolution_actions.move
FixAllActions ==
    /\ phase = "migrate"
    /\ \E f \in Functions : HasOp(funcs[f], "next_action")
    /\ funcs' = [f \in Functions |-> EnsureIncrementActionIdx(FixNextActionCall(funcs[f]))]
    /\ UNCHANGED <<phase, txVars>>

\* python fix_all_issues.py: fix_p0_increment_action_idx on the same file
FixAllIssues ==
    /\ phase = "migrate"
    /\ funcs' = [f \in Functions |-> CheckAndAddIncrement(AddIncrementIfMissing(funcs[f]))]
    /\ UNCHANGED <<phase, txVars>>

\* The package is built and published (complete_migration.test_compilation).
Deploy ==
    /\ phase = "migrate"
    /\ phase' = "deployed"
    /\ UNCHANGED <<funcs, txVars>>

\* A transaction starts: an Executable is created over an Intent.
BeginTx ==
    /\ phase = "deployed"
    /\ txStatus = "idle"
    /\ \E it \in Intents : intent' = it
    /\ cursor' = 0
    /\ txStatus' = "running"
    /\ dispatched' = <<>>
    /\ last' = NoCall
    /\ obligations' = 0
    /\ UNCHANGED <<funcs, files, phase, config, txStart, built>>

\* A call that moves the payload out of the action spec it decodes
\* instead of copying it (action_data read without the copy of *action_data).
DispatchConsuming(f, strict) ==
    /\ phase = "deployed"
    /\ txStatus = "running"
    /\ ~HasOp(funcs[f], "next_action")
    /\ LET r == Run(funcs[f], Frame(cursor, config), intent, strict)
       IN  /\ last' = [fn |-> f, idx |-> cursor, err |-> r.err,
                       failStep |-> r.failStep, trace |-> r.trace]
           /\ cursor' = r.cursor
           /\ intent' = IF cursor < Len(intent) /\ "decode" \in Range(r.trace)
                         THEN [intent EXCEPT ![cursor + 1].payload = <<>>]
                         ELSE intent
           /\ IF r.status = "abort"
              THEN /\ txStatus' = "aborted"
                   /\ config' = txStart
                   /\ UNCHANGED dispatched
              ELSE /\ config' = r.config
                   /\ dispatched' = Append(dispatched, cursor)
                   /\ UNCHANGED txStatus
    /\ UNCHANGED <<funcs, files, phase, txStart, built, obligations>>

\* The transaction calls the do_ function f on its Executable.  Only the
\* functions a script has rewritten are called: next_action is no longer
\* part of the protocol.
Dispatch(f, strict) ==
    /\ phase = "deployed"
    /\ txStatus = "running"
    /\ ~HasOp(funcs[f], "next_action")
    /\ LET r == Run(funcs[f], Frame(cursor, config), intent, strict)
       IN  /\ last' = [fn |-> f, idx |-> cursor, err |-> r.err,
                       failStep |-> r.failStep, trace |-> r.trace]
           /\ cursor' = r.cursor
           /\ IF r.status = "abort"
              THEN /\ txStatus' = "aborted"
                   /\ config' = txStart
                   /\ UNCHANGED dispatched
              ELSE /\ config' = r.config
                   /\ dispatched' = Append(dispatched, cursor)
                   /\ UNCHANGED txStatus
    /\ UNCHANGED <<funcs, files, phase, intent, txStart, built, obligations>>

\* A transaction end that does not look at the ResourceRequests left.
CommitDroppingRequests ==
    /\ txStatus = "running"
    /\ cursor = Len(intent)
    /\ txStatus' = "committed"
    /\ UNCHANGED <<funcs, files, phase, intent, cursor, config, txStart, dispatched, last, built,
                   obligations>>

\* The transaction ends with its Executable exhausted.  A ResourceRequest
\* has no drop ability: a transaction that still holds one fails as a whole.
Commit ==
    /\ txStatus = "running"
    /\ cursor = Len(intent)
    /\ IF obligations = 0
       THEN txStatus' = "committed" /\ UNCHANGED config
       ELSE txStatus' = "aborted" /\ config' = txStart
    /\ UNCHANGED <<funcs, files, phase, intent, cursor, txStart, dispatched, last, built, obligations>>

\* The Executable of a finished transaction is gone.
EndTx ==
    /\ txStatus \in {"aborted", "committed"}
    /\ txStatus' = "idle"
    /\ intent' = <<>>
    /\ cursor' = 0
    /\ txStart' = config
    /\ dispatched' = <<>>
    /\ last' = NoCall
    /\ obligations' = 0
    /\ UNCHANGED <<funcs, files, phase, config, built>>

Next ==
    \/ FixFinancialActions
    \/ CompleteMigration
    \/ FixAllActions
    \/ FixAllIssues
    \/ Deploy
    \/ BeginTx
    \/ \E f \in Templated, strict \in BOOLEAN : Dispatch(f, strict)
    \/ Commit
    \/ EndTx

Spec == Init /\ [][Next]_vars

\* dissolution_actions.move after fix_financial_actions and complete_migration.
TemplateTable ==
    [f \in Functions |-> FixRemainingBody(f, FixDissolutionBody(f, LegacyBody(f)))]

\* dissolution_actions.move after fix_all_actions alone.
GenericTable ==
    [f \in Functions |-> EnsureIncrementActionIdx(FixNextActionCall(LegacyBody(f)))]

DissolvingConfig ==
    [operational_state |-> "dissolving", proposals_enabled |-> FALSE, legacy_applied |-> FALSE]

----------------------------------------------------------------------------
\* The decoder registry: the decoder of an action is registered under the
\* type name of the action struct.

\* type_name::with_defining_ids<XAction>(), the key of the decoder of the
\* action a do_ function dispatches.
DecoderKey(f) == ActionStructOf(f)

\* decode_for_display: the decoder registered under the tag of the spec
\* reads the fields of its struct from a version 1 payload and accepts no
\* byte after them.
DecodeForDisplay(f, spec) ==
    /\ spec.tag = DecoderKey(f)
    /\ spec.version = SupportedVersion
    /\ LET r == DecodeFields(StructFields(ActionStructOf(f)), spec.payload, NoLocals)
       IN  r.ok /\ r.rest = <<>>

----------------------------------------------------------------------------
\* Oracle actions: a do_ function of oracle_actions.move returns a
\* ResourceRequest, a value without the drop ability that the transaction
\* has to hand to the fulfilment function.

OracleSpec == ActionSpec("OracleRequest", SupportedVersion, <<>>)

\* The Intents of the transactions that request the oracle.
OracleIntents ==
    UNION {[1..n -> {OracleSpec,
                     ActionSpec("InitiateDissolution", 1, EncInitiate(WindDown, 1, FALSE, 1000)),
                     ActionSpec("InitiateDissolution", 1, EncInitiate(<<>>, 1, FALSE, 1000))}] :
             n \in 0..MaxLen}

\* A deployed package and an Account in the active state.
ObligationInit ==
    /\ funcs = TemplateTable
    /\ phase = "deployed"
    /\ intent = <<>>
    /\ cursor = 0
    /\ config = ActiveConfig
    /\ txStart = ActiveConfig
    /\ txStatus = "idle"
    /\ dispatched = <<>>
    /\ last = NoCall
    /\ built = NoBuilt
    /\ obligations = 0
    /\ files = NoFiles

\* A transaction starts over an Intent that may hold oracle requests.
BeginOracleTx ==
    /\ phase = "deployed"
    /\ txStatus = "idle"
    /\ \E it \in OracleIntents : intent' = it
    /\ cursor' = 0
    /\ txStatus' = "running"
    /\ dispatched' = <<>>
    /\ last' = NoCall
    /\ obligations' = 0
    /\ UNCHANGED <<funcs, files, phase, config, txStart, built>>

\* The transaction calls the do_ function of the oracle request: the checks
\* of a dispatch, the advance, and a ResourceRequest handed to the caller.
DoOracleRequest ==
    /\ phase = "deployed"
    /\ txStatus = "running"
    /\ LET err == IF cursor >= Len(intent) THEN "ExecutableExhausted"
                  ELSE IF intent[cursor + 1].tag /= OracleSpec.tag THEN "WrongActionType"
                  ELSE IF intent[cursor + 1].version /= SupportedVersion
                       THEN "EUnsupportedActionVersion"
                  ELSE IF intent[cursor + 1].payload /= <<>> THEN "MalformedPayload"
                  ELSE "none"
       IN  IF err = "none"
           THEN /\ cursor' = cursor + 1
                /\ obligations' = obligations + 1
                /\ dispatched' = Append(dispatched, cursor)
                /\ last' = [fn |-> "do_oracle_request", idx |-> cursor, err |-> "none",
                            failStep |-> "",
                            trace |-> <<"current", "tag", "version", "decode", "advance">>]
                /\ UNCHANGED <<config, txStatus>>
           ELSE /\ txStatus' = "aborted"
                /\ config' = txStart
                /\ last' = [fn |-> "do_oracle_request", idx |-> cursor, err |-> err,
                            failStep |-> IF err = "ExecutableExhausted" THEN "current" ELSE "tag",
                            trace |-> IF err = "ExecutableExhausted" THEN <<"current">>
                                      ELSE <<"current", "tag">>]
                /\ UNCHANGED <<cursor, obligations, dispatched>>
    /\ UNCHANGED <<funcs, files, phase, intent, txStart, built>>

\* The transaction hands a ResourceRequest to the fulfilment function.
FulfillRequest ==
    /\ txStatus = "running"
    /\ obligations > 0
    /\ obligations' = obligations - 1
    /\ UNCHANGED <<funcs, files, phase, intent, cursor, config, txStart, txStatus, dispatched, last,
                   built>>

ObligationNext ==
    \/ BeginOracleTx
    \/ \E f \in Templated, strict \in BOOLEAN : Dispatch(f, strict)
    \/ DoOracleRequest
    \/ FulfillRequest
    \/ Commit
    \/ EndTx

ObligationSpec == ObligationInit /\ [][ObligationNext]_vars

----------------------------------------------------------------------------
\* The do_ functions of config_actions.move, rewritten by hand after the
\* instructions fix_all_config_do_functions prints.

ConfigFunctions ==
    {"do_update_metadata", "do_update_twap_config", "do_update_governance",
     "do_update_metadata_table", "do_update_queue_params",
     "do_update_slash_distribution", "do_batch_config",
     "do_update_twap_params", "do_update_fee_params"}

\* function_action_map
FunctionActionMap(f) ==
    CASE f = "do_update_metadata"           -> "MetadataUpdateAction"
      [] f = "do_update_twap_config"        -> "TwapConfigUpdateAction"
      [] f = "do_update_governance"         -> "GovernanceUpdateAction"
      [] f = "do_update_metadata_table"     -> "MetadataTableUpdateAction"
      [] f = "do_update_queue_params"       -> "QueueParamsUpdateAction"
      [] f = "do_update_slash_distribution" -> "SlashDistributionUpdateAction"
      [] f = "do_batch_config"              -> "ConfigAction"
      [] f = "do_update_twap_params"        -> "TradingParamsUpdateAction"
      [] f = "do_update_fee_params"         -> "TradingParamsUpdateAction"

\* A function of config_actions.move before it is rewritten.
LegacyConfigBody(f) ==
    << St("next_action", FunctionActionMap(f), ""), St("legacy_body", f, "") >>

\* config_actions.move as the instructions find it.
ConfigInit ==
    /\ funcs = [f \in ConfigFunctions |-> LegacyConfigBody(f)]
    /\ phase = "migrate"
    /\ intent = <<>>
    /\ cursor = 0
    /\ config = ActiveConfig
    /\ txStart = ActiveConfig
    /\ txStatus = "idle"
    /\ dispatched = <<>>
    /\ last = NoCall
    /\ built = NoBuilt
    /\ obligations = 0
    /\ files = NoFiles

\* The two printed steps applied to one function: the next_action line is
\* replaced, the increment is added before the closing brace.
ApplyConfigTemplate(f) ==
    /\ phase = "migrate"
    /\ HasOp(funcs[f], "next_action")
    /\ funcs' = [funcs EXCEPT ![f] = Append(FixNextActionCall(funcs[f]), IncrementStmt)]
    /\ UNCHANGED <<phase, txVars>>

ConfigNext == \E f \in ConfigFunctions : ApplyConfigTemplate(f)

ConfigSpec == ConfigInit /\ [][ConfigNext]_vars

----------------------------------------------------------------------------
\* The new_ functions: the constructors that turn the parameters of an action
\* into the bytes of its ActionSpec.

\* Longest reason a constructor is called with; its length takes two bytes
\* of ULEB128.
LongLen == 128

LongReason == [i \in 1..LongLen |-> 97]

\* bcs::to_bytes of one field, by the peel that reads it back.
EncField(op, v) ==
    CASE op = "peel_u8"         -> EncU8(v)
      [] op = "peel_bool"       -> EncBool(v)
      [] op = "peel_u64"        -> EncU64(v)
      [] op = "peel_address"    -> v
      [] op = "peel_vec_u8"     -> EncVecU8(v)
      [] op = "peel_vec_vec_u8" -> EncVecVecU8(v)

\* bcs::to_bytes(&action): the fields of the struct in declaration order.
RECURSIVE ToBytesFields(_, _)
ToBytesFields(fields, p) ==
    IF fields = <<>> THEN <<>>
    ELSE EncField(Head(fields)[1], p[Head(fields)[2]]) \o ToBytesFields(Tail(fields), p)

ToBytes(actionType, p) == ToBytesFields(StructFields(actionType), p)

\* new_initiate_dissolution_action
NewInitiateDissolutionAction(p) ==
    IF ~(p.distribution_method <= 2) THEN [ok |-> FALSE, err |-> "EInvalidRatio", bytes |-> <<>>]
    ELSE IF ~(Len(p.reason) > 0) THEN [ok |-> FALSE, err |-> "EInvalidRatio", bytes |-> <<>>]
    ELSE [ok |-> TRUE, err |-> "none", bytes |-> ToBytes("InitiateDissolutionAction", p)]

\* The new_ function of the action a do_ function dispatches.  Of the other
\* three the scripts show the serialization only.
NewAction(f, p) ==
    IF f = "do_initiate_dissolution" THEN NewInitiateDissolutionAction(p)
    ELSE [ok |-> TRUE, err |-> "none", bytes |-> ToBytes(ActionStructOf(f), p)]

\* The parameters the constructors are called with.
ParamsOf(f) ==
    CASE f = "do_initiate_dissolution" ->
            {[NoLocals EXCEPT !.reason = r, !.distribution_method = m,
                              !.burn_unsold_tokens = b, !.final_operations_deadline = d] :
                r \in {<<>>, WindDown, LongReason}, m \in {0, 2, 3},
                b \in BOOLEAN, d \in {0, 1000, 65537}}
      [] f = "do_batch_distribute" ->
            {[NoLocals EXCEPT !.asset_types = a] :
                a \in {<<>>, <<WindDown>>, <<WindDown, <<>>, LongReason>>}}
      [] f = "do_finalize_dissolution" ->
            {[NoLocals EXCEPT !.final_recipient = a, !.destroy_account = d] :
                a \in {NullAddress, Addr(1)}, d \in BOOLEAN}
      [] f = "do_cancel_dissolution" ->
            {[NoLocals EXCEPT !.reason = r] : r \in {<<>>, WindDown, LongReason}}

\* A deployed package, an Account, and the parameters of one action.
CodecInit ==
    /\ funcs \in {TemplateTable, GenericTable}
    /\ phase = "deployed"
    /\ intent = <<>>
    /\ cursor = 0
    /\ config \in {ActiveConfig, DissolvingConfig}
    /\ txStart = config
    /\ txStatus = "idle"
    /\ dispatched = <<>>
    /\ last = NoCall
    /\ obligations = 0
    /\ files = NoFiles
    /\ \E f \in Templated : \E p \in ParamsOf(f) :
          built = [NoBuilt EXCEPT !.fn = f, !.params = p, !.stage = "params"]

\* The new_ function is called on the parameters.
Construct ==
    /\ built.stage = "params"
    /\ LET r == NewAction(built.fn, built.params)
       IN  built' = [built EXCEPT !.stage = IF r.ok THEN "built" ELSE "rejected",
                                  !.err = r.err, !.bytes = r.bytes]
    /\ UNCHANGED <<funcs, files, phase, intent, cursor, config, txStart, txStatus, dispatched, last,
                   obligations>>

\* Bytes are filed as a version 1 ActionSpec under the tag the do_ function
\* checks, and the do_ function is called on it.
DispatchBytes(bytes, stage, strict) ==
    /\ LET f == built.fn
           spec == ActionSpec(ExpectedTag(funcs[f]), SupportedVersion, bytes)
           r == Run(funcs[f], Frame(0, config), <<spec>>, strict)
       IN  built' = [built EXCEPT
                        !.stage = stage,
                        !.bytes = bytes,
                        !.call = [fn |-> f, idx |-> 0, err |-> r.err,
                                  failStep |-> r.failStep, trace |-> r.trace],
                        !.locals = r.locals]
    /\ UNCHANGED <<funcs, files, phase, intent, cursor, config, txStart, txStatus, dispatched, last,
                   obligations>>

\* The bytes a new_ function returned are dispatched.
DispatchBuilt(strict) ==
    /\ built.stage = "built"
    /\ DispatchBytes(built.bytes, "dispatched", strict)

\* Parameters the new_ function refused are serialized without it (an Intent
\* takes any bytes) and dispatched.
DispatchUnbuilt(strict) ==
    /\ built.stage = "rejected"
    /\ DispatchBytes(ToBytes(ActionStructOf(built.fn), built.params), "dispatched_raw", strict)

CodecNext ==
    \/ Construct
    \/ \E strict \in BOOLEAN : DispatchBuilt(strict)
    \/ \E strict \in BOOLEAN : DispatchUnbuilt(strict)

CodecSpec == CodecInit /\ [][CodecNext]_vars

----------------------------------------------------------------------------
\* fix_action_security.py on the text of a Move file.
\*
\* The text after the header of the file is a sequence of pieces, each with
\* its width in characters: "head" is the signature of a do_ function up to
\* and including its opening brace, "na" a line
\*     let action: &T = executable.next_action(intent_witness);
\* "secA", "secB", "secC" the three parts of the replacement text (secB
\* starts at `let action_data`, secC at `let action: T`), "inc" the text
\* added for the increment, "open" and "close" a brace, "text" anything else.
\* Offsets are counted from the end of the header.

Tok(k, w, t) == [k |-> k, w |-> w, t |-> t]

\* Widths of the texts of the script, for an action type name of 9 letters.
HeadW == 211
NaW == 64
NaOff == 36          \* offset of `next_action` in an "na" piece
NeedleW == 11        \* len('next_action')
SecAW == 297
SecBW == 267
SecCW == 54
IncW == 81
IncOff == 35         \* offset of `executable::increment_action_idx` in "inc"
PreviewW == 1000

\* Most do_ functions of a file, and most runs of the script on it.
MaxFuncs == 2
MaxRuns == 2

ActionTypes == <<"OneAction", "TwoAction", "SixAction">>

\* Lines of 28 characters a legacy body has after its first statement.
BodyLines == {0, 30}

\* A do_ function as the files have it before the script runs: the doc
\* comment, the signature, the first statement (the next_action line when
\* the function uses it), n lines, an if-block when inner, `let _ = version;`.
LegacyFunction(t, n, inner, uses) ==
    << Tok("text", 19, ""), Tok("head", HeadW, t), Tok("text", 5, ""),
       Tok(IF uses THEN "na" ELSE "text", NaW, t),
       Tok("text", 1 + 28 * n, "") >>
    \o (IF inner
        THEN << Tok("text", 21, ""), Tok("open", 1, ""), Tok("text", 21, ""),
                Tok("close", 1, ""), Tok("text", 2, "") >>
        ELSE <<>>)
    \o << Tok("text", 21, ""), Tok("close", 1, ""), Tok("text", 2, "") >>

RECURSIVE Width(_)
Width(c) == IF c = <<>> THEN 0 ELSE Head(c).w + Width(Tail(c))

\* Offset of the first character of piece i.
StartOf(c, i) == Width(SubSeq(c, 1, i - 1))

Least(S) == CHOOSE x \in S : \A y \in S : x <= y

\* match.start() of every match of do_func_pattern, in order.
RECURSIVE HeadStarts(_, _)
HeadStarts(c, i) ==
    IF i > Len(c) THEN <<>>
    ELSE (IF c[i].k = "head" THEN <<StartOf(c, i)>> ELSE <<>>) \o HeadStarts(c, i + 1)

\* 'next_action' in content[func_start:func_start + 1000]
PreviewHasNextAction(c, s) ==
    \E i \in 1..Len(c) :
        /\ c[i].k = "na"
        /\ StartOf(c, i) + NaOff >= s
        /\ StartOf(c, i) + NaOff + NeedleW <= s + PreviewW

\* Offset of the brace of a "head", "open" or "close" piece.
BraceAt(c, i) == IF c[i].k = "head" THEN StartOf(c, i) + c[i].w - 1 ELSE StartOf(c, i)

\* The brace count of fix_do_function from offset s: the piece of the first
\* closing brace that brings the count to 0 after an opening brace was
\* seen, 0 when the text ends before (func_end stays func_start).
RECURSIVE ClosingBrace(_, _, _, _, _)
ClosingBrace(c, i, s, count, inFunc) ==
    IF i > Len(c) THEN 0
    ELSE IF c[i].k \in {"head", "open"} /\ BraceAt(c, i) >= s
         THEN ClosingBrace(c, i + 1, s, count + 1, TRUE)
    ELSE IF c[i].k = "close" /\ BraceAt(c, i) >= s
         THEN IF inFunc /\ count - 1 = 0 THEN i
              ELSE ClosingBrace(c, i + 1, s, count - 1, inFunc)
    ELSE ClosingBrace(c, i + 1, s, count, inFunc)

\* The replacement text for an action type.
Replacement(t) == << Tok("secA", SecAW, t), Tok("secB", SecBW, ""), Tok("secC", SecCW, t) >>

Increment == Tok("inc", IncW, "")

\* fix_do_function(content, match) with match.start() = s; the content
\* itself when the function returns None.  next_action_pattern is searched
\* with DOTALL: its match starts at the first `let action` of func_content
\* after which a next_action line follows, and ends with that line.
FixDoFunction(c, s) ==
    LET j == ClosingBrace(c, 1, s, 0, FALSE)
        inside == {i \in 1..Len(c) : StartOf(c, i) >= s /\ i < j}
        lines == {n \in inside : c[n].k = "na"}
        starts == {i \in inside : /\ c[i].k \in {"na", "secB", "secC"}
                                  /\ \E n \in lines : n >= i}
    IN  IF j = 0 \/ starts = {} THEN c
        ELSE LET i == Least(starts)
                 n == Least({m \in lines : m >= i})
                 t == c[Least({m \in i..n : c[m].k \in {"na", "secC"}})].t
                 hasIncrement ==
                     \E m \in 1..(j - 1) :
                         /\ c[m].k = "inc"
                         /\ StartOf(c, m) + IncOff >= s
                         /\ (m < i \/ m > n)
             IN  SubSeq(c, 1, i - 1) \o Replacement(t) \o SubSeq(c, n + 1, j - 1)
                     \o (IF hasIncrement THEN <<>> ELSE <<Increment>>)
                     \o SubSeq(c, j, Len(c))

\* The loop of process_file: the matches are those of the content the loop
\* started with, each applied to the content as it is by then.
RECURSIVE FixMatches(_, _)
FixMatches(c, starts) ==
    IF starts = <<>> THEN c
    ELSE FixMatches(IF PreviewHasNextAction(c, Head(starts))
                    THEN FixDoFunction(c, Head(starts)) ELSE c,
                    Tail(starts))

\* process_file(filepath) on a file.  The header has the lines after which
\* the import and the constants are inserted; the alias is never added,
\* the replacement text itself holding the word protocol_intents.
ProcessedFile(file) ==
    LET c == file.content
        fixed == IF \E i \in 1..Len(c) : c[i].k = "na"
                 THEN FixMatches(c, HeadStarts(c, 1)) ELSE c
        modified == fixed /= c
    IN  [file EXCEPT !.content = fixed,
                     !.bcs = @ \/ modified,
                     !.consts = @ \/ modified]

RECURSIVE LegacyFiles(_)
LegacyFiles(n) ==
    IF n = 0 THEN {<<>>}
    ELSE {c \o LegacyFunction(ActionTypes[n], lines, inner, uses) :
            c \in LegacyFiles(n - 1), lines \in BodyLines,
            inner \in BOOLEAN, uses \in BOOLEAN}

SecurityInit ==
    /\ funcs = [f \in Functions |-> LegacyBody(f)]
    /\ phase = "migrate"
    /\ intent = <<>>
    /\ cursor = 0
    /\ config = ActiveConfig
    /\ txStart = ActiveConfig
    /\ txStatus = "idle"
    /\ dispatched = <<>>
    /\ last = NoCall
    /\ built = NoBuilt
    /\ obligations = 0
    /\ \E n \in 1..MaxFuncs : \E c \in LegacyFiles(n) : \E bcs, consts, alias \in BOOLEAN :
          files = [NoFiles EXCEPT !.security =
                      [source |-> c, content |-> c, bcs |-> bcs, consts |-> consts,
                       alias |-> alias]]

\* python fix_action_security.py: process_file on the file
ProcessFile ==
    /\ files.runs < MaxRuns
    /\ files' = [files EXCEPT !.security = ProcessedFile(@), !.runs = @ + 1]
    /\ UNCHANGED <<funcs, phase, intent, cursor, config, txStart, txStatus, dispatched, last,
                   built, obligations>>

SecurityNext == ProcessFile

SecuritySpec == SecurityInit /\ [][SecurityNext]_vars

----------------------------------------------------------------------------
\* The decoder registrations: fix_decoder_issues.fix_stream_decoder and
\* fix_all_issues.fix_p1_decoder_registrations on the text of
\* stream_decoder.move and liquidity_decoder.move.  A text is a sequence of
\* the strings the two scripts search for and write, cut where those
\* strings begin and end.

\* content.replace(old, new) on a text.
RECURSIVE ReplaceAll(_, _, _)
ReplaceAll(c, old, new) ==
    IF Len(c) < Len(old) THEN c
    ELSE IF SubSeq(c, 1, Len(old)) = old
         THEN new \o ReplaceAll(SubSeq(c, Len(old) + 1, Len(c)), old, new)
    ELSE <<Head(c)>> \o ReplaceAll(Tail(c), old, new)

\* for old, new in replacements: content = content.replace(old, new)
RECURSIVE ReplaceEach(_, _)
ReplaceEach(c, replacements) ==
    IF replacements = <<>> THEN c
    ELSE ReplaceEach(ReplaceAll(c, Head(replacements)[1], Head(replacements)[2]),
                     Tail(replacements))

Get(t) == <<"type_name::get<", t, ">()">>

WithDefiningIds(t) == <<"type_name::with_defining_ids<", t, ">()">>

\* The action types of the stream decoder and the placeholder of each.
StreamTypes ==
    << <<"CreateStreamAction<CoinPlaceholder>", "CreateStreamActionDecoder">>,
       <<"CancelStreamAction", "CancelStreamActionDecoder">>,
       <<"WithdrawStreamAction", "WithdrawStreamActionDecoder">>,
       <<"UpdateStreamAction", "UpdateStreamActionDecoder">>,
       <<"PauseStreamAction", "PauseStreamActionDecoder">>,
       <<"ResumeStreamAction", "ResumeStreamActionDecoder">> >>

\* The placeholders of the liquidity decoder and the type put for each.
LiquidityTypes ==
    << <<"CreatePoolActionDecoder", "CreatePoolAction<AssetPlaceholder, StablePlaceholder>">>,
       <<"UpdatePoolParamsActionDecoder", "UpdatePoolParamsAction">>,
       <<"AddLiquidityActionDecoder", "AddLiquidityAction<AssetPlaceholder, StablePlaceholder>">>,
       <<"RemoveLiquidityActionDecoder",
         "RemoveLiquidityAction<AssetPlaceholder, StablePlaceholder>">>,
       <<"SwapActionDecoder", "SwapAction<AssetPlaceholder, StablePlaceholder>">>,
       <<"CollectFeesActionDecoder", "CollectFeesAction<AssetPlaceholder, StablePlaceholder>">>,
       <<"SetPoolEnabledActionDecoder", "SetPoolEnabledAction">>,
       <<"WithdrawFeesActionDecoder",
         "WithdrawFeesAction<AssetPlaceholder, StablePlaceholder>">> >>

\* fix_stream_decoder: the replacements of the type_name::get calls.
StreamDecoderReplacements ==
    [i \in 1..Len(StreamTypes) |->
        << Get(StreamTypes[i][1]),
           WithDefiningIds(StreamTypes[i][2]) \o <<" // TODO: Fix">> >>]

\* fix_p1_decoder_registrations: the replacements in stream_decoder.move.
StreamRegistrationReplacements ==
    [i \in 1..Len(StreamTypes) |->
        << WithDefiningIds(StreamTypes[i][2]) \o <<";", " // TODO: Fix">>,
           WithDefiningIds(StreamTypes[i][1]) >>]

\* fix_p1_decoder_registrations: the replacements in liquidity_decoder.move.
LiquidityRegistrationReplacements ==
    [i \in 1..Len(LiquidityTypes) |->
        << WithDefiningIds(LiquidityTypes[i][1]), WithDefiningIds(LiquidityTypes[i][2]) >>]

\* fix_stream_decoder()
FixedStreamDecoder(c) ==
    ReplaceEach(ReplaceAll(c, <<"use stream_actions::{..};">>,
                              <<"// TODO: Fix these imports", "// use stream_actions::{..};">>),
                StreamDecoderReplacements)

\* fix_p1_decoder_registrations(), the part on stream_decoder.move.
RegisteredStreamDecoder(c) ==
    ReplaceEach(ReplaceAll(c, <<"// TODO: Fix these imports", "// use stream_actions::{..};">>,
                              <<"use stream_actions::{..};">>),
                StreamRegistrationReplacements)

\* fix_p1_decoder_registrations(), the part on liquidity_decoder.move; a
\* file that does not exist (the empty text) is left alone.
RegisteredLiquidityDecoder(c) ==
    ReplaceEach(ReplaceAll(c, <<"// Placeholder types", " for registration", "placeholder structs">>,
                              <<"use liquidity_actions::{..};", "// Placeholder types",
                                " for generic parameters", "placeholder structs">>),
                LiquidityRegistrationReplacements)

\* One registration of stream_decoder.move: with type_name::get as the file
\* has it before the scripts, or already under the placeholder and marked
\* TODO after the semicolon.
StreamRegistration(i, form) ==
    CASE form = "absent" -> <<>>
      [] form = "get"    -> <<"let key = ">> \o Get(StreamTypes[i][1]) \o <<";">>
      [] form = "marked" -> <<"let key = ">> \o WithDefiningIds(StreamTypes[i][2])
                                \o <<";", " // TODO: Fix">>

RECURSIVE StreamDecoders(_)
StreamDecoders(n) ==
    IF n = 0 THEN {<<"use stream_actions::{..};">>,
                   <<"// TODO: Fix these imports", "// use stream_actions::{..};">>}
    ELSE {c \o StreamRegistration(n, form) :
            c \in StreamDecoders(n - 1), form \in {"absent", "get", "marked"}}

RECURSIVE LiquidityRegistrations(_)
LiquidityRegistrations(n) ==
    IF n = 0 THEN <<"// Placeholder types", " for registration", "placeholder structs">>
    ELSE LiquidityRegistrations(n - 1)
            \o <<"let key = ">> \o WithDefiningIds(LiquidityTypes[n][1]) \o <<";">>

LiquidityDecoders == {<<>>, LiquidityRegistrations(Len(LiquidityTypes))}

DecoderInit ==
    /\ funcs = [f \in Functions |-> LegacyBody(f)]
    /\ phase = "migrate"
    /\ intent = <<>>
    /\ cursor = 0
    /\ config = ActiveConfig
    /\ txStart = ActiveConfig
    /\ txStatus = "idle"
    /\ dispatched = <<>>
    /\ last = NoCall
    /\ built = NoBuilt
    /\ obligations = 0
    /\ \E sd \in StreamDecoders(Len(StreamTypes)) : \E ld \in LiquidityDecoders :
          files = [NoFiles EXCEPT !.decoder = [stream |-> sd, liquidity |-> ld, log |-> <<>>]]

\* python fix_decoder_issues.py: fix_stream_decoder
FixStreamDecoder ==
    /\ files.runs < MaxRuns
    /\ files' = [files EXCEPT !.decoder.stream = FixedStreamDecoder(@),
                              !.decoder.log = Append(@, "fix_stream_decoder"),
                              !.runs = @ + 1]
    /\ UNCHANGED <<funcs, phase, intent, cursor, config, txStart, txStatus, dispatched, last,
                   built, obligations>>

\* python fix_all_issues.py: fix_p1_decoder_registrations
FixP1DecoderRegistrations ==
    /\ files.runs < MaxRuns
    /\ files' = [files EXCEPT !.decoder.stream = RegisteredStreamDecoder(@),
                              !.decoder.liquidity = RegisteredLiquidityDecoder(@),
                              !.decoder.log = Append(@, "fix_p1_decoder_registrations"),
                              !.runs = @ + 1]
    /\ UNCHANGED <<funcs, phase, intent, cursor, config, txStart, txStatus, dispatched, last,
                   built, obligations>>

DecoderNext == FixStreamDecoder \/ FixP1DecoderRegistrations

DecoderSpec == DecoderInit /\ [][DecoderNext]_vars

----------------------------------------------------------------------------
\* fix_all_issues.fix_p1_add_missing_action_type_markers on the text of
\* action_types.move.  The text is a sequence of lines: the module header,
\* <<"struct", T>> for `public struct T has drop {}`, <<"accessor", T>> for
\* the accessor function of T, and the two comments the script looks for.

MarkerTypes ==
    << "CreateStream", "CancelStream", "WithdrawStream", "UpdateStream", "PauseStream",
       "ResumeStream", "CreatePayment", "CancelPayment", "ProcessPayment" >>

\* The types whose marker the Init files may lack one by one.
Varied == 3

TypesComment == <<"// === Oracle Action Types ===", "">>

AccessorsComment == <<"// Oracle actions", "">>

\* content.find(line) > 0: the index of the line when it is in the text and
\* not its very beginning, 0 otherwise.
FoundAfterStart(c, line) ==
    LET at == {i \in 1..Len(c) : c[i] = line}
    IN  IF at = {} \/ Least(at) = 1 THEN 0 ELSE Least(at)

\* content[:insert_position] + new + content[insert_position:]
InsertAt(c, i, new) == SubSeq(c, 1, i - 1) \o new \o SubSeq(c, i, Len(c))

\* The text after fix_p1_add_missing_action_type_markers().
WithMissingMarkers(c) ==
    LET missing == SelectSeq(MarkerTypes, LAMBDA t : <<"struct", t>> \notin Range(c))
        new_types == [i \in 1..Len(missing) |-> <<"struct", missing[i]>>]
        accessor_funcs == [i \in 1..Len(missing) |-> <<"accessor", missing[i]>>]
        at1 == FoundAfterStart(c, TypesComment)
        c1 == IF at1 > 0 THEN InsertAt(c, at1, new_types) ELSE c
        at2 == FoundAfterStart(c1, AccessorsComment)
    IN  IF missing = <<>> THEN c
        ELSE IF at2 > 0 THEN InsertAt(c1, at2, accessor_funcs) ELSE c1

\* action_types.move with the markers and accessors of the types in have.
ActionTypesFile(have, typesComment, accessorsComment) ==
    LET present == SelectSeq(MarkerTypes, LAMBDA t : t \in have)
    IN  <<<<"module futarchy_core::action_types;", "">>>>
        \o [i \in 1..Len(present) |-> <<"struct", present[i]>>]
        \o (IF typesComment THEN <<TypesComment>> ELSE <<>>)
        \o [i \in 1..Len(present) |-> <<"accessor", present[i]>>]
        \o (IF accessorsComment THEN <<AccessorsComment>> ELSE <<>>)

MarkerInit ==
    /\ funcs = [f \in Functions |-> LegacyBody(f)]
    /\ phase = "migrate"
    /\ intent = <<>>
    /\ cursor = 0
    /\ config = ActiveConfig
    /\ txStart = ActiveConfig
    /\ txStatus = "idle"
    /\ dispatched = <<>>
    /\ last = NoCall
    /\ built = NoBuilt
    /\ obligations = 0
    /\ \E some \in SUBSET {MarkerTypes[i] : i \in 1..Varied} :
       \E rest \in {{}, {MarkerTypes[i] : i \in (Varied + 1)..Len(MarkerTypes)}} :
       \E tc, ac \in BOOLEAN :
          files = [NoFiles EXCEPT !.types = ActionTypesFile(some \cup rest, tc, ac)]

\* python fix_all_issues.py: fix_p1_add_missing_action_type_markers
FixP1AddMissingActionTypeMarkers ==
    /\ files.runs < MaxRuns
    /\ files' = [files EXCEPT !.types = WithMissingMarkers(@), !.runs = @ + 1]
    /\ UNCHANGED <<funcs, phase, intent, cursor, config, txStart, txStatus, dispatched, last,
                   built, obligations>>

MarkerNext == FixP1AddMissingActionTypeMarkers

MarkerSpec == MarkerInit /\ [][MarkerNext]_vars

----------------------------------------------------------------------------
\* Vocabulary of the properties.

\* A do_ function has been called in the current transaction.
Called == last.fn /= "none"

\* The call found an action spec at the cursor.
CalledOnSpec == Called /\ last.idx < Len(intent)

\* The action spec the last call found at the cursor.
CalledSpec == intent[last.idx + 1]

Ran(step) == step \in Range(last.trace)

Failed == Called /\ last.err /= "none"

Times(step) == Cardinality({i \in 1..Len(last.trace) : last.trace[i] = step})

\* The payload is a complete encoding of the struct of f followed by more bytes.
HasTrailingBytes(f, payload) ==
    LET r == DecodeFields(StructFields(ActionStructOf(f)), payload, NoLocals)
    IN  r.ok /\ r.rest /= <<>>

----------------------------------------------------------------------------
\* C1: a do_ function called on an action spec whose tag is not the tag the
\* function checks fails with the wrong-action-type error, and no statement
\* of its decode step has run.
C1_TagCheckPrecedesDecode ==
    (CalledOnSpec /\ CalledSpec.tag /= ExpectedTag(funcs[last.fn]))
        => (/\ last.err \in {"WrongActionType", "EWrongAction"}
            /\ last.failStep = "tag"
            /\ ~Ran("decode"))

\* C1 witness: do_initiate_dissolution, as rewritten, called on an Initiate
\* payload filed under the tag of CancelDissolution.
C1_Witness ==
    /\ CalledOnSpec
    /\ last.fn = "do_initiate_dissolution"
    /\ funcs[last.fn] = InitiateTemplate
    /\ CalledSpec = ActionSpec("CancelDissolution", 1, EncInitiate(WindDown, 1, FALSE, 1000))
    /\ last.err = "WrongActionType"
    /\ txStatus = "aborted"

\* C2: a do_ function called on an action spec with its tag and a schema
\* version other than 1 fails with the unsupported-version error before any
\* statement of its decode step has run.
C2_VersionCheckedBeforeDecode ==
    (CalledOnSpec /\ CalledSpec.tag = ExpectedTag(funcs[last.fn])
                  /\ CalledSpec.version /= SupportedVersion)
        => (/\ last.err = "EUnsupportedActionVersion"
            /\ ~Ran("decode"))

C4_EveryIndexOnceInOrder ==
    (txStatus \in {"running", "committed"})
        => (/\ dispatched = [i \in 1..cursor |-> i - 1]
            /\ (txStatus = "committed" => Len(dispatched) = Len(intent)))

\* C5: after a call that failed in its tag, version, decode or validation
\* step, the cursor is the index the call was made on and the config is the
\* one the transaction started with.
C5_FailedCallLeavesCursorAndConfig ==
    (Failed /\ last.failStep \in {"tag", "version", "decode", "validate"})
        => (/\ cursor = last.idx
            /\ config = txStart)

\* C5 witness: the second action of an Intent fails a business assertion of
\* do_initiate_dissolution after the function wrote to the config.
C5_Witness ==
    /\ Failed
    /\ last.fn = "do_initiate_dissolution"
    /\ last.failStep = "validate"
    /\ Ran("mutate")
    /\ last.idx = 1
    /\ cursor = 1
    /\ config = txStart

\* C6: a transaction in which a call failed is aborted, and the config is
\* then the config the transaction started with.
C6_FailureRestoresConfig ==
    /\ Failed => txStatus = "aborted"
    /\ txStatus = "aborted" => config = txStart

\* C6 witness: do_initiate_dissolution returned on index 0 of a transaction
\* started in the active state, a later call failed, the state is active.
C6_Witness ==
    /\ txStatus = "aborted"
    /\ dispatched = <<0>>
    /\ funcs["do_initiate_dissolution"] = InitiateTemplate
    /\ intent[1].tag = "InitiateDissolution"
    /\ txStart.operational_state = "active"
    /\ config = txStart

\* C7: the cursor of an Executable lies between 0 and the length of its Intent.
C7_CursorInRange == 0 <= cursor /\ cursor <= Len(intent)

\* C7 witness: a call on the last index whose second increment was refused.
C7_Witness ==
    /\ Failed
    /\ last.failStep = "advance"
    /\ last.idx = Len(intent) - 1
    /\ cursor = Len(intent)

\* C8: a step of a running transaction leaves the cursor unchanged or adds
\* one to it.
C8_CursorStepsByOne ==
    [][txStatus = "running" => (cursor' = cursor \/ cursor' = cursor + 1)]_vars

\* C9: a call that returned ran its tag, version, decode and validation
\* steps and advanced the cursor exactly once.
C9_ReturnedCallAdvancedOnce ==
    (Called /\ ~Failed)
        => (/\ Times("advance") = 1
            /\ cursor = last.idx + 1
            /\ Ran("tag") /\ Ran("version") /\ Ran("decode")
            /\ (Ran("validate") \/ Ran("legacy")))

\* C10: within a call, no business assertion runs after a write to the config.
C10_NoValidationAfterMutation ==
    \A i, j \in 1..Len(last.trace) :
        (i < j) => ~(last.trace[i] = "mutate" /\ last.trace[j] = "validate")

C12_DecodeOfEncodeIsIdentity ==
    (built.stage = "dispatched")
        => (/\ built.call.failStep \notin {"current", "tag", "version", "decode"}
            /\ LET fields == StructFields(ActionStructOf(built.fn))
               IN  \A i \in 1..Len(fields) :
                      built.locals[fields[i][2]] = built.params[fields[i][2]])

\* C12 witness: an InitiateDissolution action with a reason of 128 bytes and
\* a deadline of more than two bytes, built, dispatched and decoded.
C12_Witness ==
    /\ built.stage = "dispatched"
    /\ built.fn = "do_initiate_dissolution"
    /\ built.params.reason = LongReason
    /\ built.params.final_operations_deadline = 65537
    /\ built.locals = built.params
    /\ built.call.err = "none"

\* C14: new_initiate_dissolution_action accepts a parameter tuple exactly
\* when the business assertions of do_initiate_dissolution accept it: bytes
\* the constructor returned never fail a business assertion at dispatch, and
\* a tuple the constructor refused does fail one.
C14_ConstructorValidatesAsDispatch ==
    (built.fn = "do_initiate_dissolution" /\ HasOp(funcs[built.fn], "assert"))
        => (/\ built.stage = "dispatched" => built.call.failStep /= "validate"
            /\ built.stage = "dispatched_raw" => built.call.failStep = "validate")

\* C19: the error code of a call that failed a business assertion is the
\* code of one assertion of the function only.
C19_DistinctBusinessErrorCodes ==
    (built.stage \in {"dispatched", "dispatched_raw"} /\ built.call.failStep = "validate")
        => Cardinality({i \in 1..Len(funcs[built.fn]) :
                            /\ funcs[built.fn][i].op = "assert"
                            /\ funcs[built.fn][i].err = built.call.err}) = 1

\* C13: a transaction that has completed holds no ResourceRequest: every
\* request an oracle dispatch returned has been handed to its fulfilment.
C13_NoCommitWithOutstandingRequest ==
    txStatus = "committed" => obligations = 0

\* C13 witness: every action of the Intent was dispatched, an oracle request
\* among them was never fulfilled, and the transaction failed at its end.
C13_Witness ==
    /\ txStatus = "aborted"
    /\ cursor = Len(intent)
    /\ Len(dispatched) = Len(intent)
    /\ \E i \in 1..Len(intent) : intent[i] = OracleSpec
    /\ obligations > 0
    /\ last.err = "none"

\* C15: the decoder registered for the action of a do_ function displays an
\* action spec exactly when the tag, version and decode steps of the do_
\* function succeed on it.
C15_DisplayAcceptsWhatDispatchAccepts ==
    CalledOnSpec
        => (DecodeForDisplay(last.fn, CalledSpec)
                <=> last.failStep \notin {"current", "tag", "version", "decode"})

\* C16: two different rewritten do_ functions of a file check two
\* different tags.
C16_NoTwoFunctionsShareATag ==
    \A f, g \in DOMAIN funcs :
        (/\ f /= g
         /\ ~HasOp(funcs[f], "next_action")
         /\ ~HasOp(funcs[g], "next_action"))
            => ExpectedTag(funcs[f]) /= ExpectedTag(funcs[g])

\* The ActionSpec of the scenario: InitiateDissolution, version 1, reason
\* "wind down", distribution method 1, no burn, deadline 1000.
ScenarioSpec == ActionSpec("InitiateDissolution", 1, EncInitiate(WindDown, 1, FALSE, 1000))

\* C17: do_initiate_dissolution, as fix_financial_actions writes it, called
\* on the Intent that holds the scenario action alone returns, whatever the
\* config was; the operational state is then dissolving and the cursor is
\* at the end of the Intent.
C17_ScenarioSucceeds ==
    (/\ intent = <<ScenarioSpec>>
     /\ Called /\ last.fn = "do_initiate_dissolution" /\ last.idx = 0
     /\ HasOp(funcs[last.fn], "set_operational_state"))
        => (/\ last.err = "none"
            /\ txStatus \in {"running", "committed"}
            /\ config.operational_state = "dissolving"
            /\ cursor = Len(intent))

\* C17 witness: the scenario committed on an Account that was dissolved.
C17_Witness ==
    /\ intent = <<ScenarioSpec>>
    /\ txStatus = "committed"
    /\ last.fn = "do_initiate_dissolution"
    /\ txStart.operational_state = "dissolved"
    /\ config.operational_state = "dissolving"
    /\ cursor = 1

\* C18: do_initiate_dissolution, as fix_financial_actions writes it, called
\* on an InitiateDissolution action whose reason is empty fails with the
\* code of its assertion on the reason, and the operational state and the
\* proposals flag are then the ones the transaction started with.
C18_EmptyReasonFails ==
    (/\ CalledOnSpec /\ last.fn = "do_initiate_dissolution"
     /\ HasOp(funcs[last.fn], "set_operational_state")
     /\ CalledSpec = ActionSpec("InitiateDissolution", 1, EncInitiate(<<>>, 1, FALSE, 1000)))
        => (/\ last.err = "EInvalidRatio"
            /\ last.failStep = "validate"
            /\ txStatus = "aborted"
            /\ config.operational_state = txStart.operational_state
            /\ config.proposals_enabled = txStart.proposals_enabled)

\* C18 witness: the first action of a transaction on an active Account has
\* an empty reason; the call wrote the dissolving state, failed, and the
\* Account is active with proposals enabled.
C18_Witness ==
    /\ Failed
    /\ last.fn = "do_initiate_dissolution"
    /\ last.idx = 0
    /\ CalledOnSpec
    /\ CalledSpec = ActionSpec("InitiateDissolution", 1, EncInitiate(<<>>, 1, FALSE, 1000))
    /\ Ran("mutate")
    /\ last.err = "EInvalidRatio"
    /\ config.operational_state = "active"
    /\ config.proposals_enabled

\* C20: while an Executable runs, no step changes its Intent: every call of a
\* do_ function, whether it returns or aborts, and the end of the
\* transaction leave the sequence of action specs as it was created.
C20_IntentUnchanged == [][txStatus = "running" => intent' = intent]_vars

\* C20 witness: on an Intent of two action specs one call has returned and
\* the next one has failed after it read the payload of its action spec.
C20_Witness ==
    /\ Len(intent) = 2
    /\ Len(dispatched) = 1
    /\ Failed
    /\ last.idx = 1
    /\ Ran("decode")
    /\ intent[2].payload /= <<>>
    /\ txStatus = "aborted"

\* The payload is not an encoding of the struct of f: a field cannot be read.
Malformed(f, payload) ==
    ~DecodeFields(StructFields(ActionStructOf(f)), payload, NoLocals).ok

\* C21: a call on an action spec with a wrong tag and an unsupported version
\* fails with the wrong-action-type error, and a call on an action spec
\* with the right tag, an unsupported version and a payload that cannot be
\* decoded fails with the unsupported-version error.
C21_EarliestFailingStepReported ==
    CalledOnSpec
        => (/\ (/\ CalledSpec.tag /= ExpectedTag(funcs[last.fn])
                /\ CalledSpec.version /= SupportedVersion)
                   => last.err \in {"WrongActionType", "EWrongAction"}
            /\ (/\ CalledSpec.tag = ExpectedTag(funcs[last.fn])
                /\ CalledSpec.version /= SupportedVersion
                /\ Malformed(last.fn, CalledSpec.payload))
                   => last.err = "EUnsupportedActionVersion")

\* The step is a call of the do_ function f.
CallStep(f) == txStatus = "running" /\ last' /= last /\ last'.fn = f

\* The fields the struct of f decodes to from the payload.
Decoded(f, payload) ==
    DecodeFields(StructFields(ActionStructOf(f)), payload, NoLocals)

\* The function f has the body of its template (asserting the marker type)
\* and the action spec at the cursor carries that marker, a version the
\* function accepts and an exact encoding of the struct of f.
TemplateCallOnOwnSpec(f) ==
    /\ CallStep(f)
    /\ HasOp(funcs[f], "assert_action_type")
    /\ cursor < Len(intent)
    /\ intent[cursor + 1].tag = ExpectedTag(funcs[f])
    /\ intent[cursor + 1].version = SupportedVersion
    /\ Decoded(f, intent[cursor + 1].payload).ok
    /\ Decoded(f, intent[cursor + 1].payload).rest = <<>>

\* C22: do_finalize_dissolution called on a FinalizeDissolution action
\* returns exactly when the operational state is dissolving and the
\* recipient is not the null address; then the state is dissolved and the
\* cursor is one more; otherwise the call fails with EDissolutionNotActive,
\* respectively EInvalidRecipient, the cursor stays and the operational state
\* is the one the transaction started with.
C22_FinalizeDissolution ==
    [][TemplateCallOnOwnSpec("do_finalize_dissolution")
        => LET p == Decoded("do_finalize_dissolution", intent[cursor + 1].payload).locals
               dissolving == config.operational_state = "dissolving"
           IN  IF dissolving /\ p.final_recipient /= NullAddress
               THEN /\ last'.err = "none"
                    /\ config'.operational_state = "dissolved"
                    /\ cursor' = cursor + 1
               ELSE /\ last'.err = IF ~dissolving THEN "EDissolutionNotActive"
                                   ELSE "EInvalidRecipient"
                    /\ cursor' = cursor
                    /\ config'.operational_state = txStart.operational_state]_vars

\* C23: do_cancel_dissolution, as complete_migration writes it, called on an
\* action spec returns exactly when the spec is a CancelDissolution action,
\* the operational state is dissolving and the reason is not empty; then the
\* state is active, proposals are enabled and the cursor is one more;
\* otherwise the call fails, the cursor stays, and the operational state and
\* the proposals flag are the ones the transaction started with.
C23_CancelDissolution ==
    [][(/\ CallStep("do_cancel_dissolution")
        /\ HasOp(funcs["do_cancel_dissolution"], "assert_action_type")
        /\ cursor < Len(intent))
        => LET spec == intent[cursor + 1]
               d == Decoded("do_cancel_dissolution", spec.payload)
           IN  IF /\ spec.tag = "CancelDissolution"
                  /\ d.ok /\ d.rest = <<>>
                  /\ config.operational_state = "dissolving"
                  /\ Len(d.locals.reason) > 0
               THEN /\ last'.err = "none"
                    /\ config'.operational_state = "active"
                    /\ config'.proposals_enabled
                    /\ cursor' = cursor + 1
               ELSE /\ last'.err /= "none"
                    /\ cursor' = cursor
                    /\ config'.operational_state = txStart.operational_state
                    /\ config'.proposals_enabled = txStart.proposals_enabled]_vars

\* C23 witness: a transaction started in the dissolving state has called
\* do_cancel_dissolution on index 0; the state is active, proposals enabled.
C23_Witness ==
    /\ Called /\ ~Failed
    /\ last.fn = "do_cancel_dissolution"
    /\ funcs[last.fn] = CancelTemplate
    /\ last.idx = 0
    /\ cursor = 1
    /\ txStart.operational_state = "dissolving"
    /\ ~txStart.proposals_enabled
    /\ config.operational_state = "active"
    /\ config.proposals_enabled

\* C24: do_batch_distribute, as fix_financial_actions writes it, called on
\* an action spec returns exactly when the spec is a DistributeAsset action,
\* the operational state is dissolving and the asset list is not empty; a
\* call that returns leaves the config as it was and the cursor one more; a
\* call that fails leaves the cursor, and the config is the one the
\* transaction started with.
C24_BatchDistributeWritesNothing ==
    [][(/\ CallStep("do_batch_distribute")
        /\ HasOp(funcs["do_batch_distribute"], "assert_action_type")
        /\ cursor < Len(intent))
        => LET spec == intent[cursor + 1]
               d == Decoded("do_batch_distribute", spec.payload)
           IN  IF /\ spec.tag = "DistributeAsset"
                  /\ d.ok /\ d.rest = <<>>
                  /\ config.operational_state = "dissolving"
                  /\ Len(d.locals.asset_types) > 0
               THEN /\ last'.err = "none"
                    /\ config' = config
                    /\ cursor' = cursor + 1
               ELSE /\ last'.err /= "none"
                    /\ cursor' = cursor
                    /\ config' = txStart]_vars

\* C24 witness: in a transaction that began with do_initiate_dissolution,
\* do_batch_distribute has returned on index 1 and the state is dissolving.
C24_Witness ==
    /\ Called /\ ~Failed
    /\ last.fn = "do_batch_distribute"
    /\ funcs[last.fn] = BatchTemplate
    /\ last.idx = 1
    /\ cursor = 2
    /\ dispatched = <<0, 1>>
    /\ txStart.operational_state = "active"
    /\ config.operational_state = "dissolving"
    /\ ~config.proposals_enabled

\* The action types whose do_ function has a next_action line in the text.
Vulnerable(c) == {c[i].t : i \in {m \in 1..Len(c) : c[m].k = "na"}}

\* Number of pieces of kind k in the function whose signature is piece h.
PiecesIn(c, h, k) ==
    LET j == ClosingBrace(c, 1, StartOf(c, h), 0, FALSE)
    IN  Cardinality({m \in h..j : c[m].k = k})

\* The function of action type t is in the text, with the replacement in
\* place of its next_action line and one increment.
Secured(c, t) ==
    /\ t \notin Vulnerable(c)
    /\ \E h \in 1..Len(c) :
          /\ c[h].k = "head" /\ c[h].t = t
          /\ PiecesIn(c, h, "secA") = 1
          /\ \E m \in h..Len(c) : c[m].k = "secC" /\ c[m].t = t
                                  /\ m < ClosingBrace(c, 1, StartOf(c, h), 0, FALSE)
          /\ PiecesIn(c, h, "inc") = 1

\* C25: after process_file has run on a file in which two or more do_
\* functions use next_action, each of these functions has the replacement
\* in place of its next_action line and exactly one increment.
C25_EveryFunctionSecured ==
    (files.runs >= 1 /\ Cardinality(Vulnerable(files.security.source)) >= 2)
        => \A t \in Vulnerable(files.security.source) : Secured(files.security.content, t)

\* The placeholder type names of the stream decoder.
StreamPlaceholders == {StreamTypes[i][2] : i \in 1..Len(StreamTypes)}

\* C26: when fix_p1_decoder_registrations has just run on a
\* stream_decoder.move that fix_stream_decoder rewrote before, no
\* registration of the file is under a placeholder type.
C26_NoPlaceholderLeft ==
    LET log == files.decoder.log
    IN  (/\ Len(log) >= 2
         /\ log[Len(log)] = "fix_p1_decoder_registrations"
         /\ log[Len(log) - 1] = "fix_stream_decoder")
            => Range(files.decoder.stream) \cap StreamPlaceholders = {}

\* Number of lines of the text equal to line.
Occurrences(c, line) == Cardinality({i \in 1..Len(c) : c[i] = line})

\* C27: a run of fix_p1_add_missing_action_type_markers leaves exactly one
\* marker struct and exactly one accessor function for each stream and
\* payment action type, and a run after the first leaves the text as it was.
C27_MarkersAddedOnce ==
    [][(files'.runs > files.runs)
        => (/\ \A i \in 1..Len(MarkerTypes) :
                  /\ Occurrences(files'.types, <<"struct", MarkerTypes[i]>>) = 1
                  /\ Occurrences(files'.types, <<"accessor", MarkerTypes[i]>>) = 1
            /\ files.runs >= 1 => files'.types = files.types)]_vars

\* C28: whenever the operational state is dissolving or dissolved, proposals
\* are disabled (in the committed config and in the config of a running
\* transaction alike).
C28_DissolutionDisablesProposals ==
    /\ config.operational_state \in {"dissolving", "dissolved"} => ~config.proposals_enabled
    /\ txStart.operational_state \in {"dissolving", "dissolved"} => ~txStart.proposals_enabled

\* C28 witness: one transaction started on an active Account has initiated
\* and finalized the dissolution and is committed.
C28_Witness ==
    /\ txStatus = "committed"
    /\ txStart.operational_state = "active"
    /\ txStart.proposals_enabled
    /\ dispatched = <<0, 1>>
    /\ last.fn = "do_finalize_dissolution"
    /\ config.operational_state = "dissolved"
    /\ ~config.proposals_enabled

\* C29: the committed operational state, once dissolved, is dissolved after
\* every step.
C29_DissolvedIsFinal ==
    [][txStart.operational_state = "dissolved"
        => txStart'.operational_state = "dissolved"]_vars

\* The config after the action of an action spec has been applied to cfg.
Effect(spec, cfg) ==
    CASE spec.tag = "InitiateDissolution" ->
            [cfg EXCEPT !.operational_state = "dissolving", !.proposals_enabled = FALSE]
      [] spec.tag = "CancelDissolution" ->
            [cfg EXCEPT !.operational_state = "active", !.proposals_enabled = TRUE]
      [] spec.tag = "FinalizeDissolution" -> [cfg EXCEPT !.operational_state = "dissolved"]
      [] spec.tag = "DistributeAsset" -> cfg
      [] OTHER -> [cfg EXCEPT !.legacy_applied = TRUE]

RECURSIVE Effects(_, _)
Effects(specs, cfg) ==
    IF specs = <<>> THEN cfg ELSE Effects(Tail(specs), Effect(Head(specs), cfg))

\* C30: in a transaction that has not failed, the config is the config the
\* transaction started with after the effects of the actions at the
\* indices 0..cursor-1, applied in this order.
C30_ConfigIsEffectsUpToCursor ==
    (txStatus \in {"running", "committed"})
        => config = Effects(SubSeq(intent, 1, cursor), txStart)

====
